---- MODULE Spec2Model ----
(***************************************************************************)
(* Model of the notion_todo integration: the paginated Notion API client   *)
(* (api.py), the refresh coordinator (coordinator.py), the entry setup     *)
(* (__init__.py) and the to-do list entity (todo.py).                      *)
(*                                                                         *)
(* Python's optional values (None, a missing dict key) are modelled as     *)
(* sets of at most one element: {} is None / absent, {x} is the value x.   *)
(***************************************************************************)
EXTENDS Integers, Sequences, FiniteSets, TLC

\* ------------------------------------------------------------------ bounds

\* Largest number of pages the modelled remote serves in one query.
MaxPages == 3

\* Largest number of records of a Snapshot the to-do entity is given.
MaxRecords == 2

\* ---------------------------------------------------------------- optionals

None == {}

Some(x) == {x}

\* dict.get(key, default) on an optional value.
Get(opt, default) == IF opt = {} THEN default ELSE CHOOSE x \in opt : TRUE

\* Python truthiness of an optional string: None and "" are falsy.
TruthyStr(opt) == opt # {} /\ opt # {""}

\* Python truthiness of an optional boolean: None and False are falsy.
TruthyBool(opt) == opt = {TRUE}

\* ------------------------------------------------------------ the remote

\* Raw records of the data source (two distinguishable records are enough to
\* tell order, loss and duplication apart).
Records == {"r1", "r2"}

\* The "results" key of one response body: missing, or a list of records.
ResultLists == {None, Some(<<"r1">>), Some(<<"r2">>)}

\* The "next_cursor" key of one response body: missing/null, empty, or a token.
Cursors == {None, Some(""), Some("c1"), Some("c2")}

\* The "has_more" key of one response body: missing/null, false, true.
HasMore == {None, Some(FALSE), Some(TRUE)}

\* JSON bodies the remote can answer a list request with.
Bodies == [results : ResultLists, has_more : HasMore, next_cursor : Cursors]

NoBody == [results |-> None, has_more |-> None, next_cursor |-> None]

\* HTTP statuses the remote can answer with.
Statuses == {200, 400, 401, 403, 404, 429, 500, 503}

\* Exceptions session.request / asyncio.timeout can raise before a response
\* is available.
TransportExceptions ==
    {"TimeoutError", "ServerTimeoutError", "ClientConnectorError",
     "gaierror", "RuntimeError"}

\* Outcomes of response.json(): the parsed body, or an exception.
JsonOutcomes == {"ok", "ContentTypeError", "JSONDecodeError"}

\* Base classes of every exception class of the model (isinstance).
Bases(exc) ==
    CASE exc = "TimeoutError"          -> {"TimeoutError", "OSError", "Exception"}
      [] exc = "ServerTimeoutError"    -> {"ServerTimeoutError", "ClientError",
                                           "TimeoutError", "OSError", "Exception"}
      [] exc = "ClientConnectorError"  -> {"ClientConnectorError", "ClientError",
                                           "OSError", "Exception"}
      [] exc = "ClientResponseError"   -> {"ClientResponseError", "ClientError",
                                           "Exception"}
      [] exc = "ContentTypeError"      -> {"ContentTypeError", "ClientResponseError",
                                           "ClientError", "Exception"}
      [] exc = "gaierror"              -> {"gaierror", "OSError", "Exception"}
      [] exc = "JSONDecodeError"       -> {"JSONDecodeError", "ValueError", "Exception"}
      [] exc = "RuntimeError"          -> {"RuntimeError", "Exception"}
      [] exc = "NotionTodoApiClientError" ->
             {"NotionTodoApiClientError", "Exception"}
      [] exc = "NotionTodoApiClientCommunicationError" ->
             {"NotionTodoApiClientCommunicationError",
              "NotionTodoApiClientError", "Exception"}
      [] exc = "NotionTodoApiClientAuthenticationError" ->
             {"NotionTodoApiClientAuthenticationError",
              "NotionTodoApiClientError", "Exception"}
      [] exc = "NotionTodoApiClientNotFoundError" ->
             {"NotionTodoApiClientNotFoundError",
              "NotionTodoApiClientError", "Exception"}
      [] exc = "NotionTodoApiClientRateLimitError" ->
             {"NotionTodoApiClientRateLimitError",
              "NotionTodoApiClientError", "Exception"}
      [] exc = "UpdateFailed"          -> {"UpdateFailed", "HomeAssistantError",
                                           "Exception"}
      [] exc = "ConfigEntryAuthFailed" -> {"ConfigEntryAuthFailed",
                                           "HomeAssistantError", "Exception"}
      [] OTHER                         -> {"Exception"}

IsInstance(exc, cls) == cls \in Bases(exc)

\* The client's error classes.
ApiErrors ==
    {"NotionTodoApiClientError", "NotionTodoApiClientCommunicationError",
     "NotionTodoApiClientAuthenticationError",
     "NotionTodoApiClientNotFoundError", "NotionTodoApiClientRateLimitError"}

\* What the transport does with one request: it raises before a response is
\* there (exc), or it answers with a status; json and body are what
\* response.json() gives when the code gets to call it.
Outcome(exc, status, json, body) ==
    [exc |-> exc, status |-> status, json |-> json, body |-> body]

Outcomes ==
    {Outcome(Some(e), 0, "ok", NoBody) : e \in TransportExceptions}
    \cup {Outcome(None, s, "ok", NoBody) : s \in Statuses \ {200}}
    \cup {Outcome(None, 200, j, NoBody) : j \in JsonOutcomes \ {"ok"}}
    \cup {Outcome(None, 200, "ok", b) : b \in Bodies}

NoOutcome == Outcome(None, 0, "ok", NoBody)

\* ------------------------------------------------------- api.py: the client

AUTH_FAILURE_STATUSES == {401, 403}

ERROR_INVALID_CREDENTIALS == "Invalid credentials"

ERROR_INVALID_DATABASE_ID == "Invalid database id"

ERROR_RESOURCE_NOT_FOUND == "Resource not found"

ERROR_RATE_LIMIT == "Rate limit exceeded"

ERROR_UNEXPECTED_RESPONSE == "Unexpected response"

\* The result of one step of _api_wrapper: a returned body, a raised
\* exception, or neither (control falls out of the block).
Return(body) == [t |-> "return", exc |-> "", msg |-> "", body |-> body]

Raise(exc, msg) == [t |-> "raise", exc |-> exc, msg |-> msg, body |-> NoBody]

\* response.raise_for_status(): raises ClientResponseError for a status of 400
\* or more, and passes otherwise.
RaiseForStatus(status) == status >= 400

\* The else branch of the status classification: raise_for_status(), then
\* return await response.json().
ElseBranch(o) ==
    IF RaiseForStatus(o.status) THEN Raise("ClientResponseError", "status")
    ELSE IF o.json # "ok" THEN Raise(o.json, "json")
    ELSE Return(o.body)

\* The classification without its 429 branch.
TryBody_NoRateLimit(o) ==
    IF o.exc # None THEN Raise(Get(o.exc, ""), "transport")
    ELSE IF o.status \in AUTH_FAILURE_STATUSES
      THEN [t |-> "pass", exc |-> "NotionTodoApiClientAuthenticationError",
            msg |-> ERROR_INVALID_CREDENTIALS, body |-> NoBody]
    ELSE IF o.status = 400
      THEN [t |-> "pass", exc |-> "NotionTodoApiClientNotFoundError",
            msg |-> ERROR_INVALID_DATABASE_ID, body |-> NoBody]
    ELSE IF o.status = 404
      THEN [t |-> "pass", exc |-> "NotionTodoApiClientNotFoundError",
            msg |-> ERROR_RESOURCE_NOT_FOUND, body |-> NoBody]
    ELSE ElseBranch(o)

\* The classification with 401 as the only authentication failure.
TryBody_Only401(o) ==
    IF o.exc # None THEN Raise(Get(o.exc, ""), "transport")
    ELSE IF o.status = 401
      THEN [t |-> "pass", exc |-> "NotionTodoApiClientAuthenticationError",
            msg |-> ERROR_INVALID_CREDENTIALS, body |-> NoBody]
    ELSE IF o.status = 400
      THEN [t |-> "pass", exc |-> "NotionTodoApiClientNotFoundError",
            msg |-> ERROR_INVALID_DATABASE_ID, body |-> NoBody]
    ELSE IF o.status = 404
      THEN [t |-> "pass", exc |-> "NotionTodoApiClientNotFoundError",
            msg |-> ERROR_RESOURCE_NOT_FOUND, body |-> NoBody]
    ELSE IF o.status = 429
      THEN [t |-> "pass", exc |-> "NotionTodoApiClientRateLimitError",
            msg |-> ERROR_RATE_LIMIT, body |-> NoBody]
    ELSE ElseBranch(o)

\* The classification with a 429 branch that leaves `error` unset.
TryBody_RateLimitUnset(o) ==
    IF o.exc # None THEN Raise(Get(o.exc, ""), "transport")
    ELSE IF o.status \in AUTH_FAILURE_STATUSES
      THEN [t |-> "pass", exc |-> "NotionTodoApiClientAuthenticationError",
            msg |-> ERROR_INVALID_CREDENTIALS, body |-> NoBody]
    ELSE IF o.status = 400
      THEN [t |-> "pass", exc |-> "NotionTodoApiClientNotFoundError",
            msg |-> ERROR_INVALID_DATABASE_ID, body |-> NoBody]
    ELSE IF o.status = 404
      THEN [t |-> "pass", exc |-> "NotionTodoApiClientNotFoundError",
            msg |-> ERROR_RESOURCE_NOT_FOUND, body |-> NoBody]
    ELSE IF o.status = 429
      THEN [t |-> "pass", exc |-> "", msg |-> "", body |-> NoBody]
    ELSE ElseBranch(o)

\* The body of the try block: the request, then the classification of the
\* response's status. A classified status sets `error` and leaves the block
\* (t = "pass"); the else branch returns the body or raises.
TryBody(o) ==
    IF o.exc # None THEN Raise(Get(o.exc, ""), "transport")
    ELSE IF o.status \in AUTH_FAILURE_STATUSES
      THEN [t |-> "pass", exc |-> "NotionTodoApiClientAuthenticationError",
            msg |-> ERROR_INVALID_CREDENTIALS, body |-> NoBody]
    ELSE IF o.status = 400
      THEN [t |-> "pass", exc |-> "NotionTodoApiClientNotFoundError",
            msg |-> ERROR_INVALID_DATABASE_ID, body |-> NoBody]
    ELSE IF o.status = 404
      THEN [t |-> "pass", exc |-> "NotionTodoApiClientNotFoundError",
            msg |-> ERROR_RESOURCE_NOT_FOUND, body |-> NoBody]
    ELSE IF o.status = 429
      THEN [t |-> "pass", exc |-> "NotionTodoApiClientRateLimitError",
            msg |-> ERROR_RATE_LIMIT, body |-> NoBody]
    ELSE ElseBranch(o)

\* The except clauses without the last, catch-all one.
ExceptClauses_NoCatchAll(exc) ==
    IF IsInstance(exc, "TimeoutError")
      THEN Raise("NotionTodoApiClientCommunicationError", "Timeout error")
    ELSE IF IsInstance(exc, "ClientError") \/ IsInstance(exc, "gaierror")
      THEN Raise("NotionTodoApiClientCommunicationError", "Error fetching")
    ELSE Raise(exc, "reraised")

\* The except clauses, in order, applied to an exception raised in the block.
ExceptClauses(exc) ==
    IF IsInstance(exc, "TimeoutError")
      THEN Raise("NotionTodoApiClientCommunicationError", "Timeout error")
    ELSE IF IsInstance(exc, "ClientError") \/ IsInstance(exc, "gaierror")
      THEN Raise("NotionTodoApiClientCommunicationError", "Error fetching")
    ELSE IF IsInstance(exc, "NotionTodoApiClientError")
      THEN Raise(exc, "reraised")
    ELSE Raise("NotionTodoApiClientError", "Unexpected error")

\* What follows the try statement: raise the classified error, or the
\* defensive fallback when there is none.
AfterTry(r) ==
    IF r.exc # "" THEN Raise(r.exc, r.msg)
    ELSE Raise("NotionTodoApiClientError", ERROR_UNEXPECTED_RESPONSE)

\* _api_wrapper: one request.
ApiWrapper(o) ==
    LET r == TryBody(o) IN
    CASE r.t = "return" -> r
      [] r.t = "raise"  -> ExceptClauses(r.exc)
      [] OTHER          -> AfterTry(r)

\* The page put in front of the accumulated records instead of behind them.
Extend_Prepend(acc, body) == Get(body.results, << >>) \o acc

\* async_query_data_source line 73: results.extend(data.get("results", [])).
Extend(acc, body) == acc \o Get(body.results, << >>)

\* async_query_data_source lines 66-67: the payload of the next request; the
\* start_cursor key is written only when next_cursor is truthy, and the
\* payload dict lives across the iterations of the loop.
NextPayload(start_cursor, cursor) ==
    IF TruthyStr(cursor) THEN cursor ELSE start_cursor

\* async_query_data_source line 74: if not data.get("has_more"): break.
LoopEnds(body) == ~TruthyBool(body.has_more)

\* The records of a sequence of pages, page after page (a page without
\* "results" has none).
RECURSIVE ConcatPages(_)
ConcatPages(pages) ==
    IF pages = << >> THEN << >>
    ELSE Get(Head(pages), << >>) \o ConcatPages(Tail(pages))

\* ------------------------------------------- coordinator.py: one refresh

\* The data_source_id of the entry's data: missing, empty, or an id.
DataSourceIds == {None, Some(""), Some("ds1")}

\* The except clauses with the authentication error handled as any other.
UpdateDataExcept_AuthAsUpdateFailed(exc) ==
    IF IsInstance(exc, "NotionTodoApiClientError") THEN "UpdateFailed" ELSE exc

\* The except clauses with the not-found error escalated as the
\* authentication error is.
UpdateDataExcept_NotFoundAsAuth(exc) ==
    IF IsInstance(exc, "NotionTodoApiClientAuthenticationError")
         \/ IsInstance(exc, "NotionTodoApiClientNotFoundError")
      THEN "ConfigEntryAuthFailed"
    ELSE IF IsInstance(exc, "NotionTodoApiClientError")
      THEN "UpdateFailed"
    ELSE exc

\* _async_update_data lines 35-40: the except clauses, applied to the error
\* async_query_data_source raised.
UpdateDataExcept(exc) ==
    IF IsInstance(exc, "NotionTodoApiClientAuthenticationError")
      THEN "ConfigEntryAuthFailed"
    ELSE IF IsInstance(exc, "NotionTodoApiClientNotFoundError")
      THEN "UpdateFailed"
    ELSE IF IsInstance(exc, "NotionTodoApiClientError")
      THEN "UpdateFailed"
    ELSE exc

\* What async_query_data_source does when _api_wrapper raises in the loop:
\* nothing catches the error there, so it leaves the query and the records
\* accumulated so far (acc) are lost with the frame.
QueryReturn(value) == [ok |-> TRUE, value |-> value, exc |-> ""]

QueryRaise(exc) == [ok |-> FALSE, value |-> << >>, exc |-> exc]

\* A query that would swallow the error and return what it has.
QueryOnError_ReturnPartial(exc, acc) == QueryReturn(acc)

QueryOnError(exc, acc) == QueryRaise(exc)

\* _async_update_data lines 29-31: the guard on the configured id.
MissingDataSourceId(id) == ~TruthyStr(id)

\* What _async_update_data did: returned a list, or raised exc because of
\* cause (the client's error class, or the missing id).
Returned(value) == [ok |-> TRUE, value |-> value, exc |-> "", cause |-> ""]

Raised(exc, cause) == [ok |-> FALSE, value |-> << >>, exc |-> exc, cause |-> cause]

NoUpdate == [ok |-> FALSE, value |-> << >>, exc |-> "", cause |-> ""]

MISSING_DATA_SOURCE_ID == "Missing data source id; reconfigure integration."

\* _async_update_data lines 32-40 around the query's result q: the list is
\* returned as it is, an error goes through the except clauses.
UpdateData(q) ==
    IF q.ok THEN Returned(q.value)
    ELSE Raised(UpdateDataExcept(q.exc), q.exc)

\* ------------------------------------------------------- strings (todo.py)

\* A Python str is modelled as the sequence of its characters, so that
\* strip, casefold, split and the substring test are computed, not assumed.
WHITESPACE == {" "}

UPPER == <<"A", "B", "C", "D", "E", "F", "G", "H", "I", "J", "K", "L", "M",
           "N", "O", "P", "Q", "R", "S", "T", "U", "V", "W", "X", "Y", "Z">>

LOWER == <<"a", "b", "c", "d", "e", "f", "g", "h", "i", "j", "k", "l", "m",
           "n", "o", "p", "q", "r", "s", "t", "u", "v", "w", "x", "y", "z">>

\* str.casefold of one character of the modelled alphabet.
CaseFoldChar(c) ==
    IF \E i \in DOMAIN UPPER : UPPER[i] = c
    THEN LOWER[CHOOSE i \in DOMAIN UPPER : UPPER[i] = c]
    ELSE c

\* str.casefold.
RECURSIVE CaseFold(_)
CaseFold(s) ==
    IF s = << >> THEN << >>
    ELSE <<CaseFoldChar(Head(s))>> \o CaseFold(Tail(s))

RECURSIVE LStrip(_)
LStrip(s) ==
    IF s # << >> /\ Head(s) \in WHITESPACE THEN LStrip(Tail(s)) ELSE s

RECURSIVE RStrip(_)
RStrip(s) ==
    IF s # << >> /\ s[Len(s)] \in WHITESPACE
    THEN RStrip(SubSeq(s, 1, Len(s) - 1))
    ELSE s

\* str.strip.
Strip(s) == RStrip(LStrip(s))

\* sub in s, for two strs.
Contains(sub, s) ==
    \E i \in 1..(Len(s) - Len(sub) + 1) : SubSeq(s, i, i + Len(sub) - 1) = sub

\* str.split(","): the pieces between the commas, in order.
RECURSIVE Split(_)
Split(s) ==
    IF \E i \in 1..Len(s) : s[i] = ","
    THEN LET i == CHOOSE k \in 1..Len(s) :
                    s[k] = "," /\ \A j \in 1..(k - 1) : s[j] # ","
         IN  <<SubSeq(s, 1, i - 1)>> \o Split(SubSeq(s, i + 1, Len(s)))
    ELSE <<s>>

\* Python truthiness of an optional str: None and "" are falsy.
TruthyText(opt) == opt # None /\ opt # Some(<< >>)

\* ------------------------------------------------- Notion values (todo.py)

\* A property value of a page, as the API sends it: its "type" and the key
\* named after the type. Of the keys title / rich_text (parts), select /
\* status (option), checkbox and date, those a value does not have are None.
Prop(type, parts, option, checkbox, date) ==
    [type |-> type, parts |-> parts, option |-> option,
     checkbox |-> checkbox, date |-> date]

\* The "start" str of a date value: empty or not, with a "T" in it or not,
\* in the ISO format or not, and the day and hour it names when it is.
StartText(empty, hasT, iso, day, hour) ==
    [empty |-> empty, T |-> hasT, iso |-> iso, day |-> day, hour |-> hour]

\* A dt.date (datetime = FALSE, hour 0) or an aware dt.datetime.
Due(isDatetime, day, hour) == [datetime |-> isDatetime, day |-> day, hour |-> hour]

\* The instant of a date-time or of the clock, in hours.
Instant(t) == t.day * 24 + t.hour

\* dict.get(name) on the "properties" of a page.
PropsGet(props, name) ==
    IF name \in DOMAIN props THEN Some(props[name]) ELSE None

\* _plain_text: the parts' plain_text ("" when a part has none), joined and
\* stripped.
RECURSIVE JoinPlainText(_)
JoinPlainText(parts) ==
    IF parts = << >> THEN << >>
    ELSE Get(Head(parts).plain_text, << >>) \o JoinPlainText(Tail(parts))

PlainText(parts) == Strip(JoinPlainText(parts))

\* _extract_text: the text of a title, rich_text or select property, else None.
ExtractText(prop) ==
    IF prop = None THEN None
    ELSE LET p == Get(prop, 0) IN
         IF p.type \in {"title", "rich_text"}
         THEN LET text == PlainText(Get(p.parts, << >>)) IN
              IF text = << >> THEN None ELSE Some(text)
         ELSE IF p.type = "select"
         THEN IF p.option = None THEN None ELSE Get(p.option, 0).name
         ELSE None

\* _extract_due: the date of a date property; a start with a "T" is parsed
\* as a date-time, any other as a date, and a start that does not parse
\* gives None.
ExtractDue(prop) ==
    IF prop = None \/ Get(prop, 0).type # "date" THEN None
    ELSE LET date_value == Get(prop, 0).date
             start == IF date_value = None THEN None ELSE Get(date_value, 0).start
         IN  IF start = None \/ Get(start, 0).empty THEN None
             ELSE LET s == Get(start, 0) IN
                  IF ~s.iso THEN None
                  ELSE IF s.T THEN Some(Due(TRUE, s.day, s.hour))
                  ELSE Some(Due(FALSE, s.day, 0))

\* _status_name: the option name of a status or select property.
StatusName(prop) ==
    IF prop = None THEN None
    ELSE LET p == Get(prop, 0) IN
         IF p.type \in {"status", "select"}
         THEN IF p.option = None THEN None ELSE Get(p.option, 0).name
         ELSE None

\* The substrings of a case-folded option name that mean "completed".
COMPLETED_WORDS ==
    { <<"d", "o", "n", "e">>,
      <<"c", "o", "m", "p", "l", "e", "t", "e">>,
      <<"c", "o", "m", "p", "l", "e", "t", "e", "d">>,
      <<"d", "r", "o", "p", "p", "e", "d">> }

\* A variant of IsCompleted in which the name has to be one of the words.
IsCompleted_WholeName(prop) ==
    IF prop = None THEN FALSE
    ELSE LET p == Get(prop, 0) IN
         IF p.type = "checkbox" THEN TruthyBool(p.checkbox)
         ELSE IF p.type \in {"status", "select"}
         THEN LET value == IF p.option = None THEN None ELSE Get(p.option, 0).name
              IN  CaseFold(Get(value, << >>)) \in COMPLETED_WORDS
         ELSE FALSE

\* _is_completed.
IsCompleted(prop) ==
    IF prop = None THEN FALSE
    ELSE LET p == Get(prop, 0) IN
         IF p.type = "checkbox" THEN TruthyBool(p.checkbox)
         ELSE IF p.type \in {"status", "select"}
         THEN LET value == IF p.option = None THEN None ELSE Get(p.option, 0).name
                  name == CaseFold(Get(value, << >>))
              IN  \E w \in COMPLETED_WORDS : Contains(w, name)
         ELSE FALSE

\* _parse_status_list: the stripped, case-folded, non-empty items of a
\* comma-separated str.
ParseStatusList(value) ==
    IF ~TruthyText(value) THEN {}
    ELSE LET items == Split(Get(value, << >>)) IN
         { CaseFold(Strip(items[i])) :
             i \in { k \in DOMAIN items : Strip(items[k]) # << >> } }

\* A lookup that prefers the entry's data to its options.
GetEntryValue_DataFirst(entry, key, default) ==
    IF entry.data[key] # None THEN entry.data[key]
    ELSE IF entry.options[key] # None THEN entry.options[key]
    ELSE Some(default)

\* _get_entry_value: the option when the options have the key, else the
\* entry's data, else the default (None stands for a key that is not there).
GetEntryValue(entry, key, default) ==
    IF entry.options[key] # None THEN entry.options[key]
    ELSE IF entry.data[key] # None THEN entry.data[key]
    ELSE Some(default)

\* _due_within_window: a due is inside when it is not later than the clock
\* plus the days (a date compared with the clock's date).
DueWithinWindow(due, days, clock) ==
    IF due = None \/ days <= 0 THEN FALSE
    ELSE LET d == Get(due, 0) IN
         IF d.datetime
         THEN Instant(d) <= Instant(clock) + days * 24
         ELSE d.day <= clock.day + days

\* ------------------------------------------------- the to-do list (todo.py)

\* JSON null as the value of a key that is present.
JsonNull == None

\* A page without properties: page.get("properties", {}).
NoProps == [n \in {} |-> None]

\* What the entity reads from the entry: the property names from the data
\* (__init__), the filter from the options or the data (at every update).
EntityConfig(entry) ==
    [title_property |-> Get(entry.data["title_property"], "Name"),
     status_property |-> Get(entry.data["status_property"], "Status"),
     due_property |-> Get(entry.data["due_property"], "Due"),
     description_property |-> Get(entry.data["description_property"], "Description"),
     include_statuses |->
         ParseStatusList(GetEntryValue(entry, "include_statuses", << >>)),
     exclude_statuses |->
         ParseStatusList(GetEntryValue(entry, "exclude_statuses", << >>)),
     due_within_days |-> Get(GetEntryValue(entry, "due_within_days", 0), 0)]

\* A variant of Skipped that looks at the archived flag only.
Skipped_ArchivedOnly(page) == TruthyBool(page.archived)

\* The first test of the loop: archived and trashed pages are passed over.
Skipped(page) == TruthyBool(page.archived) \/ TruthyBool(page.in_trash)

\* Mapping a page raises when its "properties" is null (None.get).
MappingRaises(page) == page.properties = Some(JsonNull)

\* A variant of Title without the default.
Title_NoDefault(self, props) ==
    Get(ExtractText(PropsGet(props, self.title_property)), << >>)

UNTITLED == <<"U", "n", "t", "i", "t", "l", "e", "d">>

\* The summary of the item: the text of the title property, or "Untitled".
Title(self, props) ==
    LET text == ExtractText(PropsGet(props, self.title_property)) IN
    IF TruthyText(text) THEN Get(text, << >>) ELSE UNTITLED

\* A variant of Excluded in which a status that is also included is kept.
Excluded_UnlessIncluded(self, status_name) ==
    /\ self.exclude_statuses # {}
    /\ TruthyText(status_name)
    /\ CaseFold(Get(status_name, << >>)) \in self.exclude_statuses
    /\ CaseFold(Get(status_name, << >>)) \notin self.include_statuses

\* The exclude rule: the status name, case-folded, is in exclude_statuses.
Excluded(self, status_name) ==
    /\ self.exclude_statuses # {}
    /\ TruthyText(status_name)
    /\ CaseFold(Get(status_name, << >>)) \in self.exclude_statuses

\* A variant of Included that asks for a status in every case.
Included_StatusOnly(self, status_name, due, clock) ==
    /\ TruthyText(status_name)
    /\ self.include_statuses # {}
    /\ CaseFold(Get(status_name, << >>)) \in self.include_statuses

\* The include rule: without include_statuses and due_within_days every
\* page is in; with one of them, a page is in by its status or by its due.
Included(self, status_name, due, clock) ==
    IF self.include_statuses # {} \/ self.due_within_days > 0
    THEN LET include_by_status ==
                 /\ TruthyText(status_name)
                 /\ self.include_statuses # {}
                 /\ CaseFold(Get(status_name, << >>)) \in self.include_statuses
             include_by_due == DueWithinWindow(due, self.due_within_days, clock)
         IN  include_by_status \/ include_by_due
    ELSE TRUE

\* A variant of TodoItem whose description is there only without a filter.
TodoItem_DescriptionByFilter(self, page, props) ==
    LET description == ExtractText(PropsGet(props, self.description_property)) IN
    [summary |-> Title(self, props),
     uid |-> page.id,
     status |-> IF IsCompleted(PropsGet(props, self.status_property))
                THEN "completed" ELSE "needs_action",
     due |-> ExtractDue(PropsGet(props, self.due_property)),
     description |-> IF /\ TruthyText(description)
                        /\ self.include_statuses = {}
                        /\ self.exclude_statuses = {}
                        /\ self.due_within_days = 0
                     THEN description ELSE None]

\* The TodoItem of a page.
TodoItem(self, page, props) ==
    LET description == ExtractText(PropsGet(props, self.description_property)) IN
    [summary |-> Title(self, props),
     uid |-> page.id,
     status |-> IF IsCompleted(PropsGet(props, self.status_property))
                THEN "completed" ELSE "needs_action",
     due |-> ExtractDue(PropsGet(props, self.due_property)),
     description |-> IF TruthyText(description) THEN description ELSE None]

\* A variant of AddItem that puts the new item first.
AddItem_Prepend(items, item) == <<item>> \o items

\* items.append(item).
AddItem(items, item) == Append(items, item)

\* The loop of _handle_coordinator_update over the pages that are left, with
\* the items collected so far: the list, or an exception out of the loop.
RECURSIVE HandlePages(_, _, _, _)
HandlePages(self, clock, pages, items) ==
    IF pages = << >> THEN [ok |-> TRUE, items |-> items]
    ELSE LET page == Head(pages) IN
         IF Skipped(page) THEN HandlePages(self, clock, Tail(pages), items)
         ELSE IF MappingRaises(page) THEN [ok |-> FALSE, items |-> items]
         ELSE LET props == Get(Get(page.properties, Some(NoProps)), NoProps)
                  item == TodoItem(self, page, props)
                  status_name == StatusName(PropsGet(props, self.status_property))
              IN  IF Excluded(self, status_name)
                  THEN HandlePages(self, clock, Tail(pages), items)
                  ELSE IF ~Included(self, status_name, item.due, clock)
                  THEN HandlePages(self, clock, Tail(pages), items)
                  ELSE HandlePages(self, clock, Tail(pages), AddItem(items, item))

\* _handle_coordinator_update as a function of the entry, the Snapshot and
\* the clock.
HandleUpdate(entry, snapshot, clock) ==
    HandlePages(EntityConfig(entry), clock, Get(snapshot, << >>), << >>)

\* ------------------------------------------------ the config flow's inputs

\* A data source of a database payload: its "id" (None: no such key).
Source(id) == [id |-> id]

\* A database payload: "data_sources" (a list, or None) and "data_source"
\* (one source, or None).
Database(data_sources, data_source) ==
    [object |-> Some("database"), data_sources |-> data_sources,
     data_source |-> data_source]

\* The payload {}.
EmptyPayload == [object |-> None, data_sources |-> None, data_source |-> None]

\* The payloads async_get_database can return: no sources, sources without
\* an id, one source, two sources, a single "data_source", and {}.
Databases ==
    {Database(None, None),
     Database(Some(<< >>), None),
     Database(Some(<<Source(Some(""))>>), None),
     Database(Some(<<Source(Some("s1"))>>), None),
     Database(Some(<<Source(None), Source(Some("s2"))>>), None),
     Database(Some(<<Source(Some("s1")), Source(Some("s2"))>>), None),
     Database(None, Some(Source(Some("s2")))),
     Database(Some(<<Source(Some("s1"))>>), Some(Source(Some("s1")))),
     Database(Some(<<Source(Some("s1"))>>), Some(Source(Some("s2")))),
     EmptyPayload}

\* A 32-digit id in one of its two spellings.
Uuid(hex, dashed) == [hex |-> hex, dashed |-> dashed]

\* What _UUID_RE finds in the text the user types as the database id: no
\* id, one id in either spelling, or both spellings of it (a URL).
DatabaseIdTexts ==
    {<< >>,
     <<Uuid("a", FALSE)>>,
     <<Uuid("a", TRUE)>>,
     <<Uuid("a", TRUE), Uuid("a", FALSE)>>}

\* What async_get_database ends in: a payload, or one of the client's
\* errors.
GetDatabaseOutcomes ==
    {QueryReturn(d) : d \in Databases} \cup {QueryRaise(e) : e \in ApiErrors}

\* What _list_databases ends in: the databases with an id, or an error.
ListDatabasesOutcomes ==
    {QueryReturn(l) :
        l \in {<< >>, <<Uuid("a", TRUE)>>, <<Uuid("a", TRUE), Uuid("b", TRUE)>>}}
    \cup {QueryRaise(e) : e \in ApiErrors}

\* ------------------------------------------- the config flow (config_flow.py)

\* A variant of DataSources that keeps the sources without an id.
DataSources_KeepAll(database) ==
    LET listed == Get(database.data_sources, << >>)
        sources == [i \in 1..Len(listed) |-> Get(listed[i].id, "")]
        single == database.data_source
    IN  IF /\ single # None
           /\ \A i \in 1..Len(sources) :
                sources[i] # Get(Get(single, Source(None)).id, "")
        THEN Append(sources, Get(Get(single, Source(None)).id, ""))
        ELSE sources

\* _data_sources: the sources of "data_sources" that have an id, then the
\* "data_source" when it has an id that is not among them.
DataSources(database) ==
    LET listed == SelectSeq(Get(database.data_sources, << >>),
                            LAMBDA s : TruthyStr(s.id))
        sources == [i \in 1..Len(listed) |-> Get(listed[i].id, "")]
        single == database.data_source
    IN  IF /\ single # None
           /\ TruthyStr(Get(single, Source(None)).id)
           /\ \A i \in 1..Len(sources) :
                sources[i] # Get(Get(single, Source(None)).id, "")
        THEN Append(sources, Get(Get(single, Source(None)).id, ""))
        ELSE sources

\* _candidate_database_ids: every id found and its other spelling, each
\* once, in the order found.
RECURSIVE CandidateDatabaseIds(_, _)
CandidateDatabaseIds(matches, candidates) ==
    IF matches = << >> THEN candidates
    ELSE LET raw == Head(matches)
             other == Uuid(raw.hex, ~raw.dashed)
             c1 == IF \E i \in 1..Len(candidates) : candidates[i] = raw
                   THEN candidates ELSE Append(candidates, raw)
             c2 == IF \E i \in 1..Len(c1) : c1[i] = other
                   THEN c1 ELSE Append(c1, other)
         IN  CandidateDatabaseIds(Tail(matches), c2)

\* _errors_from_exception and _abort_from_exception: the key of the error.
ErrorKey(exc) ==
    IF IsInstance(exc, "NotionTodoApiClientAuthenticationError") THEN "auth"
    ELSE IF IsInstance(exc, "NotionTodoApiClientCommunicationError")
    THEN "connection"
    ELSE "unknown"

\* _async_find_database over the candidates that are left, with outcomes[i]
\* what the remote does with the i-th of them: a not-found error goes on to
\* the next candidate, any other error leaves the loop, a payload ends it.
RECURSIVE FindDatabase(_, _, _)
FindDatabase(candidates, outcomes, i) ==
    IF i > Len(candidates)
    THEN [raised |-> FALSE, exc |-> "", database |-> None, selected_id |-> None]
    ELSE IF outcomes[i].ok
    THEN [raised |-> FALSE, exc |-> "", database |-> Some(outcomes[i].value),
          selected_id |-> Some(candidates[i])]
    ELSE IF IsInstance(outcomes[i].exc, "NotionTodoApiClientNotFoundError")
    THEN FindDatabase(candidates, outcomes, i + 1)
    ELSE [raised |-> TRUE, exc |-> outcomes[i].exc, database |-> None,
          selected_id |-> None]

\* The flow's results: a form (with the key of an error), an abort, an
\* entry; database and cause record the payload the step chose from and the
\* error the remote answered the step with.
ShowForm(f, step, errors, cause) ==
    [f EXCEPT !.step = step, !.errors = errors, !.cause = cause]

Abort(f, reason, cause) ==
    [f EXCEPT !.step = "abort", !.reason = Some(reason), !.cause = cause]

\* async_set_unique_id, _abort_if_unique_id_configured, async_create_entry.
CreateEntry(f, database, database_id, data_source_id) ==
    IF data_source_id \in f.configured
    THEN [f EXCEPT !.step = "abort", !.reason = Some("already_configured"),
                   !.unique_id = Some(data_source_id),
                   !.database = database, !.cause = None]
    ELSE [f EXCEPT !.step = "create_entry",
                   !.unique_id = Some(data_source_id),
                   !.entry = [database_id |-> Some(database_id),
                              data_source_id |-> Some(data_source_id)],
                   !.errors = None, !.database = database, !.cause = None]

\* The start of async_step_select_data_source.
SelectDataSourceForm(f) ==
    IF f.pending_data = None \/ f.available_data_sources = << >>
    THEN Abort(f, "no_databases", None)
    ELSE ShowForm(f, "select_data_source", None, None)

\* _async_handle_database_selection (and the same lines of
\* async_step_select): no source is an invalid database, one source makes
\* the entry, more sources ask the user.
HandleDatabaseSelection(f, database, selected_id, noSources) ==
    LET sources == DataSources(database) IN
    IF sources = << >> THEN noSources
    ELSE IF Len(sources) = 1
    THEN CreateEntry(f, Some(database), selected_id, sources[1])
    ELSE SelectDataSourceForm(
             [f EXCEPT !.pending_data = Some([database_id |-> Some(selected_id)]),
                       !.available_data_sources = sources,
                       !.database = Some(database)])

\* _async_handle_database_list: the databases the token can see are listed
\* and the user is asked to select one.
HandleDatabaseList(f, listed) ==
    LET g == [f EXCEPT !.pending_data = Some([database_id |-> None])] IN
    IF ~listed.ok
    THEN ShowForm(g, "user", Some(ErrorKey(listed.exc)), Some(listed.exc))
    ELSE IF listed.value # << >>
    THEN ShowForm([g EXCEPT !.available_databases = listed.value],
                  "select", None, None)
    ELSE ShowForm([g EXCEPT !.available_databases = listed.value],
                  "user", Some("invalid_database"), None)

\* _async_handle_user_input and async_step_user.
HandleUserInput(f, text, outcomes, listed) ==
    LET candidates == CandidateDatabaseIds(text, << >>) IN
    IF candidates = << >> THEN ShowForm(f, "user", Some("invalid_id"), None)
    ELSE LET found == FindDatabase(candidates, outcomes, 1) IN
         IF found.raised
         THEN ShowForm(f, "user", Some(ErrorKey(found.exc)), Some(found.exc))
         ELSE IF \/ found.database = None
                 \/ Get(found.database, EmptyPayload) = EmptyPayload
         THEN HandleDatabaseList(f, listed)
         ELSE HandleDatabaseSelection(
                  f, Get(found.database, EmptyPayload),
                  Get(found.selected_id, Uuid("", FALSE)),
                  ShowForm(f, "user", Some("invalid_database"), None))

\* async_step_select with the user's choice.
HandleSelect(f, selected, outcome) ==
    IF ~outcome.ok
    THEN Abort(f, ErrorKey(outcome.exc), Some(outcome.exc))
    ELSE HandleDatabaseSelection(f, outcome.value, selected,
                                 Abort(f, "invalid_database", None))

\* async_step_select_data_source with the user's choice.
HandleSelectDataSource(f, selected) ==
    CreateEntry(f, f.database,
                Get(Get(f.pending_data, [database_id |-> None]).database_id,
                    Uuid("", FALSE)),
                selected)

\* A flow at its first form, with the unique ids of the entries there are.
NewFlow(configured) ==
    [step |-> "user", errors |-> None, reason |-> None,
     pending_data |-> None, available_databases |-> << >>,
     available_data_sources |-> << >>, unique_id |-> None,
     entry |-> [database_id |-> None, data_source_id |-> None], database |-> None, cause |-> None,
     configured |-> configured]

\* ------------------------------------------------------------------ state

VARIABLES
    entryState,     \* the config entry: not_loaded, setup_in_progress, loaded,
                    \* setup_retry, setup_error
    dsid,           \* entry.data.get(CONF_DATA_SOURCE_ID)
    pc,             \* the refresh task: idle, or fetching (awaiting a response)
    cycle,          \* the refresh in flight or last run: none, first, scheduled
    start_cursor,   \* payload["start_cursor"] of the query (None: no such key)
    next_cursor,    \* async_query_data_source's next_cursor
    results,        \* async_query_data_source's results
    requests,       \* the number of requests the current query has sent
    served,         \* the "results" of every page the current query received
    complete,       \* the records of the pages, in page order, of the latest
                    \* query that ran to its last page
    lastOutcome,    \* what the transport did with the latest request that
                    \* the current query has an answer to
    lastResult,     \* what _api_wrapper did with it
    update,         \* what the latest _async_update_data did
    data,           \* coordinator.data, the Snapshot (None before a success)
    previous_data,  \* coordinator.data when the latest refresh began
    last_update_success,
    last_exception,
    timerArmed,     \* the coordinator's refresh timer is scheduled
    listeners,      \* the to-do entity listens to the coordinator
    update_listener,    \* async_reload_entry listens to the entry's updates
    reauth,         \* a reauthentication flow was started for the entry
    inflight,       \* the number of _async_update_data calls that have
                    \* started and not ended
    entry,          \* the entry's data and options, as far as the to-do
                    \* entity reads them
    clock,          \* dt_util.now(): the day and the hour
    todo_items,     \* the entity's _attr_todo_items, the published list
    handled,        \* the latest _handle_coordinator_update: none yet, ok,
                    \* or raised
    flow            \* the config flow: its step, what it shows, what it
                    \* keeps between steps and the entry it made

clientVars == <<start_cursor, next_cursor, results, requests, served,
                complete, lastOutcome, lastResult>>

coordVars == <<update, data, previous_data, last_update_success,
               last_exception, timerArmed, listeners, reauth, inflight>>

todoVars == <<entry, clock, todo_items, handled>>

vars == <<entryState, dsid, pc, cycle, clientVars, coordVars, update_listener,
          todoVars, flow>>

\* An entry with none of the keys the entity reads.
NoEntryData ==
    [title_property |-> None, status_property |-> None, due_property |-> None,
     description_property |-> None, include_statuses |-> None,
     exclude_statuses |-> None, due_within_days |-> None]

NoOptions ==
    [include_statuses |-> None, exclude_statuses |-> None,
     due_within_days |-> None]

\* dt_util.now() as [day, hour].
Clock(day, hour) == [day |-> day, hour |-> hour]

\* The to-do entity before the platform has added it.
NoEntity ==
    /\ todo_items = None
    /\ handled = "none"

Init ==
    /\ entryState = "not_loaded"
    /\ dsid \in DataSourceIds
    /\ pc = "idle"
    /\ cycle = "none"
    /\ start_cursor = None
    /\ next_cursor = None
    /\ results = << >>
    /\ requests = 0
    /\ served = << >>
    /\ complete = << >>
    /\ lastOutcome = NoOutcome
    /\ lastResult = Return(NoBody)
    /\ update = NoUpdate
    /\ data = None
    /\ previous_data = None
    /\ last_update_success = TRUE
    /\ last_exception = ""
    /\ timerArmed = FALSE
    /\ listeners = FALSE
    /\ update_listener = FALSE
    /\ reauth = FALSE
    /\ inflight = 0
    /\ entry = [data |-> NoEntryData, options |-> NoOptions]
    /\ clock = Clock(1, 0)
    /\ NoEntity
    /\ flow = NewFlow({})

\* ------------------------------------------------ the refresh cycle's ends

\* The coordinator's fields a refresh starts from: those of the coordinator
\* async_setup_entry has just constructed, or the current ones.
NewCoordinator == [data |-> None, last_update_success |-> TRUE, last_exception |-> ""]

ThisCoordinator ==
    [data |-> data, last_update_success |-> last_update_success,
     last_exception |-> last_exception]

\* DataUpdateCoordinator._async_refresh after _async_update_data returned or
\* raised (res): the Snapshot is replaced on success only, and a failure is
\* recorded.
RefreshResult(c, res) ==
    /\ update' = res
    /\ data' = IF res.ok THEN Some(res.value) ELSE c.data
    /\ last_update_success' = res.ok
    /\ last_exception' = IF res.ok THEN c.last_exception ELSE res.exc
    /\ reauth' = (reauth \/ res.exc = "ConfigEntryAuthFailed")
    /\ pc' = "idle"

\* Whether _async_refresh arms the timer again when a refresh on the timer
\* ends: not after an authentication failure, and only with a listener.
Reschedule(res, hasListeners) ==
    res.exc # "ConfigEntryAuthFailed" /\ hasListeners

\* The end of a refresh on the timer.
ScheduledRefreshEnd(c, res) ==
    /\ RefreshResult(c, res)
    /\ timerArmed' = Reschedule(res, listeners)
    /\ UNCHANGED <<entryState, listeners, update_listener>>

\* The state of the entry after async_setup_entry (__init__.py): a failed
\* first refresh raises out of the setup (ConfigEntryAuthFailed: setup_error;
\* otherwise ConfigEntryNotReady: setup_retry, which is set up again later).
SetupState(res) ==
    IF res.ok THEN "loaded"
    ELSE IF res.exc = "ConfigEntryAuthFailed" THEN "setup_error"
    ELSE "setup_retry"

\* A setup that goes on to the platform whatever the first refresh did.
PlatformForwarded_Always(res) == TRUE

\* Whether async_setup_entry gets past the first refresh, to forward the
\* setup to the to-do platform and to register the update listener: a
\* failed first refresh raises out of it before.
PlatformForwarded(res) == res.ok

\* The end of the first refresh: a successful one forwards the setup to the
\* to-do platform, whose entity starts listening, which arms the timer, and
\* registers the update listener.
FirstRefreshEnd(c, res) ==
    /\ RefreshResult(c, res)
    /\ entryState' = SetupState(res)
    /\ listeners' = PlatformForwarded(res)
    /\ timerArmed' = PlatformForwarded(res)
    /\ update_listener' = PlatformForwarded(res)

RefreshEnd(kind, c, res) ==
    IF kind = "first" THEN FirstRefreshEnd(c, res) ELSE ScheduledRefreshEnd(c, res)

\* A variant of TimerDuringRefresh: the platform is forwarded before the first
\* refresh is awaited, so the entity listens and the timer runs during it.
TimerDuringRefresh_ForwardFirst(kind) == kind = "first"

\* Whether the refresh timer is scheduled while a refresh of this kind is in
\* flight. _async_refresh cancels the timer before it calls
\* _async_update_data and arms it again only when the refresh has ended; the
\* first refresh is awaited before the platform is forwarded, so nothing
\* listens, and no timer runs, during it.
TimerDuringRefresh(kind) == FALSE

\* _async_refresh and _async_update_data up to the first await: the timer is
\* cancelled; without a data source id UpdateFailed is raised and no request
\* is made; otherwise the query starts and its first request, which carries
\* no start_cursor, is sent.
RefreshBegin(kind, c) ==
    /\ cycle' = kind
    /\ previous_data' = c.data
    /\ start_cursor' = None
    /\ next_cursor' = None
    /\ results' = << >>
    /\ served' = << >>
    /\ lastOutcome' = NoOutcome
    /\ lastResult' = Return(NoBody)
    /\ UNCHANGED <<dsid, complete, todoVars, flow>>
    /\ IF MissingDataSourceId(dsid)
         THEN /\ requests' = 0
              /\ inflight' = inflight
              /\ RefreshEnd(kind, c, Raised("UpdateFailed", MISSING_DATA_SOURCE_ID))
         ELSE /\ requests' = 1
              /\ inflight' = inflight + 1
              /\ pc' = "fetching"
              /\ update' = NoUpdate
              /\ timerArmed' = TimerDuringRefresh(kind)
              /\ data' = c.data
              /\ last_update_success' = c.last_update_success
              /\ last_exception' = c.last_exception
              /\ entryState' = IF kind = "first" THEN "setup_in_progress"
                               ELSE entryState
              /\ UNCHANGED <<listeners, update_listener, reauth>>

\* ------------------------------------------------------------------ actions

\* async_setup_entry, when the entry is added, reloaded, or set up by the
\* user after a failed setup: a new coordinator and its first refresh.
SetupEntry ==
    /\ entryState \in {"not_loaded", "setup_error"}
    /\ pc = "idle"
    /\ RefreshBegin("first", NewCoordinator)

\* async_setup_entry again, by itself, after a setup that was not ready.
SetupRetry ==
    /\ entryState = "setup_retry"
    /\ pc = "idle"
    /\ RefreshBegin("first", NewCoordinator)

\* The refresh timer fires (update_interval = DEFAULT_SCAN_INTERVAL): nothing
\* but the timer's being scheduled decides whether a refresh starts.
Tick ==
    /\ timerArmed
    /\ RefreshBegin("scheduled", ThisCoordinator)

\* A page arrives that says there are more: the loop goes round and the next
\* request is sent.
PageMore ==
    /\ pc = "fetching"
    /\ Len(served) + 1 < MaxPages
    /\ \E o \in Outcomes :
         LET r == ApiWrapper(o) IN
         /\ r.t = "return"
         /\ ~LoopEnds(r.body)
         /\ lastOutcome' = o
         /\ lastResult' = r
         /\ results' = Extend(results, r.body)
         /\ served' = Append(served, r.body.results)
         /\ next_cursor' = r.body.next_cursor
         /\ start_cursor' = NextPayload(start_cursor, r.body.next_cursor)
         /\ requests' = requests + 1
    /\ UNCHANGED <<entryState, dsid, pc, cycle, complete, coordVars,
                   update_listener, todoVars, flow>>

\* The last page arrives: the query returns and the refresh ends in success.
PageLast ==
    /\ pc = "fetching"
    /\ \E o \in Outcomes :
         LET r == ApiWrapper(o) IN
         /\ r.t = "return"
         /\ LoopEnds(r.body)
         /\ lastOutcome' = o
         /\ lastResult' = r
         /\ results' = Extend(results, r.body)
         /\ served' = Append(served, r.body.results)
         /\ complete' = ConcatPages(served')
         /\ RefreshEnd(cycle, ThisCoordinator, UpdateData(QueryReturn(results')))
    /\ inflight' = inflight - 1
    /\ UNCHANGED <<dsid, cycle, start_cursor, next_cursor, requests,
                   previous_data, todoVars, flow>>

\* A request fails: the error leaves the query and the refresh ends in
\* failure.
PageFail ==
    /\ pc = "fetching"
    /\ \E o \in Outcomes :
         LET r == ApiWrapper(o) IN
         /\ r.t = "raise"
         /\ lastOutcome' = o
         /\ lastResult' = r
         /\ RefreshEnd(cycle, ThisCoordinator,
                       UpdateData(QueryOnError(r.exc, results)))
    /\ inflight' = inflight - 1
    /\ UNCHANGED <<dsid, cycle, start_cursor, next_cursor, results, requests,
                   served, complete, previous_data, todoVars, flow>>

\* The entry's runtime data (client, coordinator) is dropped with the entry:
\* nothing of the last refresh is left.
ClientGone ==
    /\ cycle' = "none"
    /\ previous_data' = None
    /\ start_cursor' = None
    /\ next_cursor' = None
    /\ results' = << >>
    /\ requests' = 0
    /\ served' = << >>
    /\ complete' = << >>
    /\ lastOutcome' = NoOutcome
    /\ lastResult' = Return(NoBody)
    /\ UNCHANGED <<todoVars, flow>>

\* async_unload_entry (the first half of async_reload_entry): the platform is
\* unloaded, the entity stops listening and the coordinator is dropped.
Unload ==
    /\ entryState = "loaded"
    /\ pc = "idle"
    /\ entryState' = "not_loaded"
    /\ data' = None
    /\ last_update_success' = TRUE
    /\ last_exception' = ""
    /\ timerArmed' = FALSE
    /\ listeners' = FALSE
    /\ update_listener' = FALSE
    /\ reauth' = FALSE
    /\ update' = NoUpdate
    /\ inflight' = 0
    /\ ClientGone
    /\ UNCHANGED <<dsid, pc>>

\* The user removes the entry and configures a new one.
Reconfigure ==
    /\ entryState \in {"loaded", "setup_error", "setup_retry"}
    /\ pc = "idle"
    /\ entryState' = "not_loaded"
    /\ dsid' \in DataSourceIds
    /\ data' = None
    /\ last_update_success' = TRUE
    /\ last_exception' = ""
    /\ timerArmed' = FALSE
    /\ listeners' = FALSE
    /\ update_listener' = FALSE
    /\ reauth' = FALSE
    /\ update' = NoUpdate
    /\ inflight' = 0
    /\ ClientGone
    /\ UNCHANGED pc

Next ==
    \/ SetupEntry
    \/ SetupRetry
    \/ Tick
    \/ PageMore
    \/ PageLast
    \/ PageFail
    \/ Unload
    \/ Reconfigure

Spec == Init /\ [][Next]_vars

TypeOK ==
    /\ entryState \in {"not_loaded", "setup_in_progress", "loaded",
                       "setup_retry", "setup_error"}
    /\ dsid \in DataSourceIds
    /\ pc \in {"idle", "fetching"}
    /\ cycle \in {"none", "first", "scheduled"}
    /\ start_cursor \in Cursors
    /\ next_cursor \in Cursors
    /\ requests \in 0..MaxPages
    /\ Len(served) <= MaxPages
    /\ lastOutcome \in Outcomes \cup {NoOutcome}
    /\ last_update_success \in BOOLEAN
    /\ timerArmed \in BOOLEAN
    /\ listeners \in BOOLEAN
    /\ update_listener \in BOOLEAN
    /\ inflight \in 0..1

\* ------------------------------------------------- the to-do entity's inputs

\* Option names and texts of the modelled pages and filters.
DONE_NAME == <<"D", "o", "n", "e">>

IN_PROGRESS_NAME == <<"I", "n", " ", "P", "r", "o", "g", "r", "e", "s", "s">>

DROPPED_NAME == <<"D", "r", "o", "p", "p", "e", "d">>

COMPLETED_EARLY_NAME ==
    <<"C", "o", "m", "p", "l", "e", "t", "e", "d", " ", "E", "a", "r", "l", "y">>

BUY_TEXT == <<"B", "u", "y">>

\* Property values by type.
TitleProp(parts) == Prop("title", parts, None, None, None)

RichTextProp(parts) == Prop("rich_text", parts, None, None, None)

SelectProp(option) == Prop("select", None, option, None, None)

StatusProp(option) == Prop("status", None, option, None, None)

CheckboxProp(value) == Prop("checkbox", None, None, value, None)

DateProp(date) == Prop("date", None, None, None, date)

NumberProp == Prop("number", None, None, None, None)

\* A select / status option with a name.
Option(name) == Some([name |-> Some(name)])

\* One rich-text part.
Part(text) == [plain_text |-> Some(text)]

\* A date value with a start.
DateValue(start) == Some([start |-> Some(start)])

\* The status property of a page: not there, or one of these values.
StatusProps ==
    {None,
     Some(StatusProp(Option(DONE_NAME))),
     Some(StatusProp(Option(IN_PROGRESS_NAME))),
     Some(StatusProp(Option(COMPLETED_EARLY_NAME))),
     Some(SelectProp(Option(DROPPED_NAME))),
     Some(StatusProp(None)),
     Some(CheckboxProp(Some(TRUE))),
     Some(CheckboxProp(Some(FALSE))),
     Some(NumberProp)}

\* The due property of a page: not there, the date of day 10, 09:00 on day
\* 10, a start that is no ISO date, or a date value without a start.
DueProps ==
    {None,
     Some(DateProp(DateValue(StartText(FALSE, FALSE, TRUE, 10, 0)))),
     Some(DateProp(DateValue(StartText(FALSE, TRUE, TRUE, 10, 9)))),
     Some(DateProp(DateValue(StartText(FALSE, FALSE, FALSE, 0, 0)))),
     Some(DateProp(Some([start |-> None])))}

\* The title property of a page: not there, " B" + "uy " (to be stripped),
\* blanks only, no parts, a part without plain_text, or a number.
TitleProps ==
    {None,
     Some(TitleProp(Some(<<Part(<<" ", "B">>), Part(<<"u", "y", " ">>)>>))),
     Some(TitleProp(Some(<<Part(<<" ", " ">>)>>))),
     Some(TitleProp(None)),
     Some(RichTextProp(Some(<<[plain_text |-> None], Part(BUY_TEXT)>>))),
     Some(SelectProp(Option(<< >>))),
     Some(NumberProp)}

BaseTitle == Some(TitleProp(Some(<<Part(BUY_TEXT)>>)))

\* The "properties" of a page from its properties by name (None: not there).
Props(title, status, due, description) ==
    LET m == [Name |-> title, Status |-> status, Due |-> due,
              Description |-> description]
    IN  [n \in {k \in DOMAIN m : m[k] # None} |-> Get(m[n], 0)]

\* A page object of the API.
Page(id, archived, in_trash, properties) ==
    [id |-> id, archived |-> archived, in_trash |-> in_trash,
     properties |-> properties]

\* A page that is neither archived nor trashed.
LivePage(title, status, due, description) ==
    Page(Some("p1"), Some(FALSE), Some(FALSE),
         Some(Some(Props(title, status, due, description))))

\* The pages a Snapshot of one record is drawn from: every status with every
\* due; the flags with two statuses and two dues; every title; a
\* description (of a done record); no properties, and null properties.
Pages ==
    { LivePage(BaseTitle, s, d, None) : s \in StatusProps, d \in DueProps }
    \cup
    { [LivePage(BaseTitle, s, d, None) EXCEPT !.archived = f[1], !.in_trash = f[2]] :
        s \in {Some(StatusProp(Option(DONE_NAME))),
               Some(StatusProp(Option(IN_PROGRESS_NAME)))},
        d \in {None, Some(DateProp(DateValue(StartText(FALSE, FALSE, TRUE, 10, 0))))},
        f \in {<<Some(TRUE), Some(FALSE)>>, <<None, Some(TRUE)>>,
               <<Some(TRUE), Some(TRUE)>>, <<None, None>>} }
    \cup
    { LivePage(t, Some(SelectProp(Option(DROPPED_NAME))), None, None) :
        t \in TitleProps }
    \cup
    { LivePage(BaseTitle, Some(StatusProp(Option(DONE_NAME))), None, x) :
        x \in {Some(RichTextProp(Some(<<Part(BUY_TEXT)>>))),
               Some(SelectProp(Option(<< >>)))} }
    \cup
    { Page(Some("p1"), None, None, None),
      Page(Some("p1"), None, None, Some(JsonNull)),
      Page(Some("p1"), Some(TRUE), None, Some(JsonNull)) }

\* The pages a longer Snapshot is drawn from: one in progress, one done and
\* due on day 10, one in the trash, one with null properties.
ListPages ==
    { LivePage(BaseTitle, Some(StatusProp(Option(IN_PROGRESS_NAME))), None, None),
      LivePage(BaseTitle, Some(StatusProp(Option(DONE_NAME))),
               Some(DateProp(DateValue(StartText(FALSE, FALSE, TRUE, 10, 0)))), None),
      [LivePage(BaseTitle, Some(StatusProp(Option(IN_PROGRESS_NAME))), None, None)
         EXCEPT !.in_trash = Some(TRUE)],
      Page(Some("p1"), None, None, Some(JsonNull)) }

\* The ids of the records of a Snapshot, by position: they differ.
PageIds == <<"p1", "p2", "p3", "p4", "p5">>

WithIds(pages) ==
    [i \in 1..Len(pages) |-> [pages[i] EXCEPT !.id = Some(PageIds[i])]]

\* The Snapshots: none yet, the empty one, one record, or up to MaxRecords
\* records.
Snapshots ==
    {None, Some(<< >>)}
    \cup { Some(<<p>>) : p \in Pages }
    \cup { Some(WithIds(s)) :
             s \in UNION { [1..n -> ListPages] : n \in 2..MaxRecords } }

\* Filter settings as the flows store them: include_statuses,
\* exclude_statuses, due_within_days (None: the key is not there).
Filter(include, exclude, days) ==
    [include_statuses |-> include, exclude_statuses |-> exclude,
     due_within_days |-> days]

DataFilters ==
    {Filter(None, None, None),
     Filter(Some(<< >>), Some(<< >>), Some(0)),
     Filter(Some(<<"d", "o", "n", "e">>), Some(<< >>), Some(0)),
     Filter(Some(<< >>), Some(<<"D", "o", "n", "e">>), Some(0)),
     Filter(Some(<< >>), Some(<< >>), Some(5)),
     Filter(Some(<<"d", "o", "n", "e">>), Some(<< >>), Some(5)),
     Filter(Some(<<" ", "I", "n", " ", "P", "r", "o", "g", "r", "e", "s", "s",
                   " ", ",", "D", "O", "N", "E">>),
            Some(<<"d", "o", "n", "e">>), Some(5)),
     Filter(Some(<<"i", "n", " ", "p", "r", "o", "g", "r", "e", "s", "s">>),
            Some(<<"D", "R", "O", "P", "P", "E", "D", ",", " ", ",", "d", "o",
                   "n", "e">>), Some(0))}

OptionFilters ==
    {NoOptions,
     Filter(Some(<< >>), Some(<< >>), Some(0)),
     Filter(Some(<<"d", "r", "o", "p", "p", "e", "d">>), None, None),
     Filter(None, Some(<<"I", "n", " ", "P", "r", "o", "g", "r", "e", "s", "s">>),
            Some(5))}

\* The entry: the property names are the defaults, or the status property
\* is also the title property.
Entry(title_property, filter, options) ==
    [data |-> [title_property |-> title_property, status_property |-> None,
               due_property |-> None, description_property |-> None,
               include_statuses |-> filter.include_statuses,
               exclude_statuses |-> filter.exclude_statuses,
               due_within_days |-> filter.due_within_days],
     options |-> options]

Entries ==
    { Entry(None, f, o) : f \in DataFilters, o \in OptionFilters }
    \cup { Entry(Some("Status"), f, NoOptions) :
             f \in {Filter(None, None, None),
                    Filter(Some(<< >>), Some(<<"D", "o", "n", "e">>), Some(0))} }

\* Readings of the clock: day 1, day 5 at 06:00 and at 12:00, day 8, day 12.
Clocks == {Clock(1, 12), Clock(5, 6), Clock(5, 12), Clock(8, 12), Clock(12, 12)}

\* ------------------------------------------------------ the to-do entity

\* The entry is loaded after a first refresh (or before any data), the
\* platform is about to add the entity.
InitTodo ==
    /\ entryState = "loaded"
    /\ dsid = Some("ds1")
    /\ pc = "idle"
    /\ cycle = "first"
    /\ start_cursor = None
    /\ next_cursor = None
    /\ results = << >>
    /\ requests = 1
    /\ served = << >>
    /\ complete = << >>
    /\ lastOutcome = NoOutcome
    /\ lastResult = Return(NoBody)
    /\ update = NoUpdate
    /\ data \in Snapshots
    /\ previous_data = None
    /\ last_update_success = TRUE
    /\ last_exception = ""
    /\ timerArmed = FALSE
    /\ listeners = FALSE
    /\ update_listener = FALSE
    /\ reauth = FALSE
    /\ inflight = 0
    /\ entry \in Entries
    /\ clock \in Clocks
    /\ NoEntity
    /\ flow = NewFlow({})

\* _handle_coordinator_update at the clock's reading c: the published list
\* is replaced when the loop ends, and left as it is when the loop raises.
HandleCoordinatorUpdate(c) ==
    LET r == HandleUpdate(entry, data, c) IN
    /\ clock' = c
    /\ handled' = IF r.ok THEN "ok" ELSE "raised"
    /\ todo_items' = IF r.ok THEN Some(r.items) ELSE todo_items
    /\ UNCHANGED <<entry, entryState, dsid, pc, cycle, clientVars, update,
                   data, previous_data, last_update_success, last_exception,
                   reauth, inflight, update_listener, flow>>

\* async_added_to_hass: the entity starts to listen and handles the
\* Snapshot there is.
AddedToHass ==
    /\ ~listeners
    /\ listeners' = TRUE
    /\ timerArmed' = TRUE
    /\ HandleCoordinatorUpdate(clock)

\* The coordinator notifies its listener, now or later, of the Snapshot.
CoordinatorUpdate ==
    /\ listeners
    /\ UNCHANGED <<listeners, timerArmed>>
    /\ \E c \in Clocks :
         /\ Instant(c) >= Instant(clock)
         /\ HandleCoordinatorUpdate(c)

NextTodo ==
    \/ AddedToHass
    \/ CoordinatorUpdate

SpecTodo == InitTodo /\ [][NextTodo]_vars

\* --------------------------------------------------- the config flow's steps

InitFlow ==
    /\ entryState = "not_loaded"
    /\ dsid = None
    /\ pc = "idle"
    /\ cycle = "none"
    /\ start_cursor = None
    /\ next_cursor = None
    /\ results = << >>
    /\ requests = 0
    /\ served = << >>
    /\ complete = << >>
    /\ lastOutcome = NoOutcome
    /\ lastResult = Return(NoBody)
    /\ update = NoUpdate
    /\ data = None
    /\ previous_data = None
    /\ last_update_success = TRUE
    /\ last_exception = ""
    /\ timerArmed = FALSE
    /\ listeners = FALSE
    /\ update_listener = FALSE
    /\ reauth = FALSE
    /\ inflight = 0
    /\ entry = [data |-> NoEntryData, options |-> NoOptions]
    /\ clock = Clock(1, 0)
    /\ NoEntity
    /\ flow \in {NewFlow(c) : c \in SUBSET {"s1", "s2"}}

\* async_step_user with the user's input: the text of the database id, and
\* what the remote answers each candidate and the search with.
StepUser ==
    /\ flow.step = "user"
    /\ \E text \in DatabaseIdTexts :
       \E outcomes \in [1..2 -> GetDatabaseOutcomes] :
       \E listed \in ListDatabasesOutcomes :
         flow' = HandleUserInput(flow, text, outcomes, listed)
    /\ UNCHANGED <<entryState, dsid, pc, cycle, clientVars, coordVars,
                   update_listener, todoVars>>

\* async_step_select with the database the user selects from the list.
StepSelect ==
    /\ flow.step = "select"
    /\ \E i \in DOMAIN flow.available_databases :
       \E outcome \in GetDatabaseOutcomes :
         flow' = HandleSelect(flow, flow.available_databases[i], outcome)
    /\ UNCHANGED <<entryState, dsid, pc, cycle, clientVars, coordVars,
                   update_listener, todoVars>>

\* async_step_select_data_source with the source the user selects.
StepSelectDataSource ==
    /\ flow.step = "select_data_source"
    /\ \E i \in DOMAIN flow.available_data_sources :
         flow' = HandleSelectDataSource(flow, flow.available_data_sources[i])
    /\ UNCHANGED <<entryState, dsid, pc, cycle, clientVars, coordVars,
                   update_listener, todoVars>>

\* The user starts another flow after one that ended; an entry the ended
\* flow made is configured now.
StartFlow ==
    /\ flow.step \in {"create_entry", "abort"}
    /\ flow' = NewFlow(IF flow.step = "create_entry"
                       THEN flow.configured \cup flow.unique_id
                       ELSE flow.configured)
    /\ UNCHANGED <<entryState, dsid, pc, cycle, clientVars, coordVars,
                   update_listener, todoVars>>

NextFlow ==
    \/ StepUser
    \/ StepSelect
    \/ StepSelectDataSource
    \/ StartFlow

SpecFlow == InitFlow /\ [][NextFlow]_vars

\* ------------------------------------------- the entry with its to-do entity

\* The lists _async_update_data returns here: no record, one record, and
\* two records the second of which is due, in the trash, or has null
\* properties.
EntitySnapshots ==
    {<< >>,
     <<LivePage(BaseTitle, Some(StatusProp(Option(DONE_NAME))), None, None)>>}
    \cup { WithIds(<<LivePage(BaseTitle,
                              Some(StatusProp(Option(IN_PROGRESS_NAME))),
                              None, None), p>>) : p \in ListPages \ {
               LivePage(BaseTitle, Some(StatusProp(Option(IN_PROGRESS_NAME))),
                        None, None)} }

\* What _async_update_data does in a refresh: it returns a list, or the
\* client raises one of its errors.
EntityResults ==
    {UpdateData(QueryReturn(s)) : s \in EntitySnapshots}
    \cup {UpdateData(QueryRaise(e)) : e \in ApiErrors}

\* The entries set up here: no filter, a status to include, a status to
\* exclude, a window of five days.
EntityEntries ==
    {Entry(None, f, NoOptions) :
       f \in {Filter(None, None, None),
              Filter(Some(<<"d", "o", "n", "e">>), Some(<< >>), Some(0)),
              Filter(Some(<< >>), Some(<<"D", "o", "n", "e">>), Some(0)),
              Filter(Some(<< >>), Some(<< >>), Some(5))}}

InitEntity ==
    /\ entryState = "not_loaded"
    /\ dsid \in {None, Some("ds1")}
    /\ pc = "idle"
    /\ cycle = "none"
    /\ start_cursor = None
    /\ next_cursor = None
    /\ results = << >>
    /\ requests = 0
    /\ served = << >>
    /\ complete = << >>
    /\ lastOutcome = NoOutcome
    /\ lastResult = Return(NoBody)
    /\ update = NoUpdate
    /\ data = None
    /\ previous_data = None
    /\ last_update_success = TRUE
    /\ last_exception = ""
    /\ timerArmed = FALSE
    /\ listeners = FALSE
    /\ update_listener = FALSE
    /\ reauth = FALSE
    /\ inflight = 0
    /\ entry \in EntityEntries
    /\ clock = Clock(1, 12)
    /\ NoEntity
    /\ flow = NewFlow({})

\* Whether _async_refresh calls the listeners when a refresh ends: not when
\* this refresh and the one before it both failed.
Notifies(previous_update_success, update_success) ==
    update_success \/ previous_update_success

\* The entity handles the Snapshot at the clock's reading c.
Handle(snapshot, c) ==
    LET r == HandleUpdate(entry, snapshot, c) IN
    /\ clock' = c
    /\ handled' = IF r.ok THEN "ok" ELSE "raised"
    /\ todo_items' = IF r.ok THEN Some(r.items) ELSE todo_items

\* The refresh in flight ends with what _async_update_data did. After the
\* first refresh the setup goes on, or not, to the platform, which adds the
\* entity (async_added_to_hass handles the Snapshot); after a refresh on
\* the timer the coordinator calls the entity, or not.
EntityRefreshEnd ==
    /\ pc = "fetching"
    /\ \E res \in EntityResults :
         /\ RefreshEnd(cycle, ThisCoordinator, res)
         /\ IF cycle = "first"
            THEN IF PlatformForwarded(res)
                 THEN Handle(data', clock)
                 ELSE UNCHANGED <<clock, todo_items, handled>>
            ELSE IF listeners /\ Notifies(last_update_success, res.ok)
                 THEN \E c \in {Clock(1, 12), Clock(5, 12), Clock(12, 12)} :
                        /\ Instant(c) >= Instant(clock)
                        /\ Handle(data', c)
                 ELSE UNCHANGED <<clock, todo_items, handled>>
    /\ inflight' = inflight - 1
    /\ UNCHANGED <<dsid, cycle, clientVars, previous_data, entry, flow>>

\* The options flow saves other options: the update listener reloads the
\* entry, whose unloading removes the entity and drops the coordinator; the
\* setup follows.
OptionsUpdate ==
    /\ update_listener
    /\ entryState = "loaded"
    /\ pc = "idle"
    /\ \E o \in OptionFilters :
         /\ o # entry.options
         /\ entry' = [entry EXCEPT !.options = o]
    /\ entryState' = "not_loaded"
    /\ data' = None
    /\ last_update_success' = TRUE
    /\ last_exception' = ""
    /\ timerArmed' = FALSE
    /\ listeners' = FALSE
    /\ update_listener' = FALSE
    /\ reauth' = FALSE
    /\ update' = NoUpdate
    /\ inflight' = 0
    /\ cycle' = "none"
    /\ previous_data' = None
    /\ requests' = 0
    /\ todo_items' = None
    /\ handled' = "none"
    /\ UNCHANGED <<dsid, pc, start_cursor, next_cursor, results, served,
                   complete, lastOutcome, lastResult, clock, flow>>

NextEntity ==
    \/ SetupEntry
    \/ SetupRetry
    \/ Tick
    \/ EntityRefreshEnd
    \/ OptionsUpdate

SpecEntity == InitEntity /\ [][NextEntity]_vars

\* ------------------------------------------------------------------ claims

\* The latest request was answered with an HTTP status.
Responded == lastOutcome.exc = None /\ lastOutcome.status # 0

\* The latest refresh has ended (returned or raised).
CycleEnded == pc = "idle" /\ cycle # "none" /\ update # NoUpdate

\* C1: a query whose pages 1..N-1 say has_more and whose page N does not
\* sends exactly N requests and returns the pages' records concatenated in
\* page order; while it runs, it has sent one request more than it has pages
\* and holds the concatenation of the pages so far.
C1_Pagination ==
    /\ pc = "fetching" =>
         /\ requests = Len(served) + 1
         /\ results = ConcatPages(served)
    /\ (CycleEnded /\ update.ok) =>
         /\ requests = Len(served)
         /\ requests >= 1
         /\ update.value = ConcatPages(served)

C1_Witness ==
    /\ CycleEnded
    /\ update.ok
    /\ requests = 3
    /\ update.value = <<"r2", "r1", "r2">>

\* C2: the first request carries no start_cursor, and every later request
\* carries the next_cursor of the page just received (no start_cursor, or
\* that value itself, when the page gave none or an empty one).
C2_CursorOfPrecedingPage ==
    [][ /\ (pc' = "fetching" /\ requests' = 1) => start_cursor' = None
        /\ (pc = "fetching" /\ requests' = requests + 1) =>
             LET cursor == lastOutcome'.body.next_cursor IN
             \/ start_cursor' = cursor
             \/ (~TruthyStr(cursor) /\ start_cursor' = None) ]_vars

\* C3: a 401 or 403 raises the authentication error, a 400 the not-found
\* error "Invalid database id", a 404 the not-found error "Resource not
\* found", a 429 the rate-limit error; no body is returned.
C3_StatusClassification ==
    Responded =>
      /\ lastOutcome.status \in {401, 403} =>
           lastResult = Raise("NotionTodoApiClientAuthenticationError",
                              ERROR_INVALID_CREDENTIALS)
      /\ lastOutcome.status = 400 =>
           lastResult = Raise("NotionTodoApiClientNotFoundError",
                              ERROR_INVALID_DATABASE_ID)
      /\ lastOutcome.status = 404 =>
           lastResult = Raise("NotionTodoApiClientNotFoundError",
                              ERROR_RESOURCE_NOT_FOUND)
      /\ lastOutcome.status = 429 =>
           lastResult = Raise("NotionTodoApiClientRateLimitError",
                              ERROR_RATE_LIMIT)

C3_Witness ==
    /\ Responded
    /\ lastOutcome.status = 429
    /\ lastResult.exc = "NotionTodoApiClientRateLimitError"
    /\ requests = 2

\* C4: a status that is not 2xx and not 400, 401, 403, 404 or 429 raises the
\* generic NotionTodoApiClientError, none of its four subclasses.
C4_OtherStatusGenericError ==
    (Responded
       /\ lastOutcome.status \notin 200..299
       /\ lastOutcome.status \notin {400, 401, 403, 404, 429}) =>
      /\ lastResult.t = "raise"
      /\ lastResult.exc = "NotionTodoApiClientError"

C6_AuthFailureKeepsSnapshot ==
    (Responded /\ lastOutcome.status \in {401, 403}) =>
      /\ pc = "idle"
      /\ lastResult.exc = "NotionTodoApiClientAuthenticationError"
      /\ update = Raised("ConfigEntryAuthFailed",
                         "NotionTodoApiClientAuthenticationError")
      /\ last_exception = "ConfigEntryAuthFailed"
      /\ ~last_update_success
      /\ data = previous_data

C6_Witness ==
    /\ Responded
    /\ lastOutcome.status = 403
    /\ requests = 2
    /\ cycle = "scheduled"
    /\ update.exc = "ConfigEntryAuthFailed"
    /\ data = Some(<<"r1">>)
    /\ results = <<"r2">>

\* C7: once a refresh has ended with the authentication error, the timer is
\* not armed and the only step that sends a request is a setup of the entry
\* by the user, never a refresh on the timer or a setup retry.
C7_AuthFailureStopsSchedule ==
    [][ (CycleEnded /\ update.cause = "NotionTodoApiClientAuthenticationError") =>
          /\ ~timerArmed
          /\ entryState \in {"loaded", "setup_error"}
          /\ requests' > requests =>
               (cycle' = "first" /\ entryState = "setup_error") ]_vars

C7_Witness ==
    /\ CycleEnded
    /\ update.cause = "NotionTodoApiClientAuthenticationError"
    /\ cycle = "scheduled"
    /\ entryState = "loaded"
    /\ listeners
    /\ ~timerArmed
    /\ reauth

\* The client errors the coordinator treats as transient.
TransientErrors ==
    {"NotionTodoApiClientNotFoundError", "NotionTodoApiClientRateLimitError",
     "NotionTodoApiClientCommunicationError", "NotionTodoApiClientError"}

\* C8: a refresh that fails with the not-found, rate-limit, communication or
\* generic error ends in UpdateFailed whichever of the four it was, keeps the
\* Snapshot of the last successful refresh, and is tried again: the timer is
\* armed again (after the first refresh, the setup is retried).
C8_TransientFailureRetries ==
    (CycleEnded /\ update.cause \in TransientErrors) =>
      /\ update.exc = "UpdateFailed"
      /\ last_exception = "UpdateFailed"
      /\ ~last_update_success
      /\ data = previous_data
      /\ cycle = "scheduled" => (timerArmed /\ entryState = "loaded")
      /\ cycle = "first" => entryState = "setup_retry"

C8_Witness ==
    /\ CycleEnded
    /\ update.cause = "NotionTodoApiClientRateLimitError"
    /\ cycle = "scheduled"
    /\ timerArmed
    /\ data = Some(<<"r1", "r2">>)

\* C9: with a missing or empty data source id a refresh sends no request and
\* fails with a condition that is not the transient UpdateFailed and is not
\* tried again by itself (no timer, no setup retry).
C9_MissingIdIsFatal ==
    (CycleEnded /\ update.cause = MISSING_DATA_SOURCE_ID) =>
      /\ requests = 0
      /\ update.exc # "UpdateFailed"
      /\ ~timerArmed
      /\ entryState # "setup_retry"

\* C10: the Snapshot is None (the initial value) or the records of the latest
\* query that ran to its last page; while a query runs, and after one that
\* failed, it is what it was before the refresh.
C10_SnapshotIsComplete ==
    /\ data = None \/ data = Some(complete)
    /\ pc = "fetching" => data = previous_data
    /\ (CycleEnded /\ ~update.ok) => data = previous_data

C10_Witness ==
    /\ CycleEnded
    /\ ~update.ok
    /\ requests = 3
    /\ results = <<"r2", "r2">>
    /\ data = Some(<<"r1">>)

SnapshotRecords == Get(data, << >>)

Self == EntityConfig(entry)

Published == Get(todo_items, << >>)

\* The properties, the status name and the due of a record.
PropsOf(page) == Get(Get(page.properties, Some(NoProps)), NoProps)

StatusNameOf(page) == StatusName(PropsGet(PropsOf(page), Self.status_property))

DueOf(page) == ExtractDue(PropsGet(PropsOf(page), Self.due_property))

\* The record has a task in the published list.
IsPublished(page) == \E k \in DOMAIN Published : Published[k].uid = page.id

\* The status name of the record, case-folded, is in the set.
StatusIn(page, statuses) ==
    /\ StatusNameOf(page) # None
    /\ CaseFold(Get(StatusNameOf(page), << >>)) \in statuses

\* C12: exclude takes precedence: a record whose status name, case-folded, is
\* in a non-empty exclude_statuses has no task in the published list,
\* whatever include_statuses, due_within_days and its due are.
C12_ExcludeTakesPrecedence ==
    handled = "ok" =>
      \A i \in DOMAIN SnapshotRecords :
        StatusIn(SnapshotRecords[i], Self.exclude_statuses)
          => ~IsPublished(SnapshotRecords[i])

\* A record that is "Done" and due on day 10, on day 8 with "done" excluded,
\* "DONE" included and a window of five days: nothing is published.
C12_Witness ==
    /\ handled = "ok"
    /\ Len(SnapshotRecords) = 1
    /\ StatusNameOf(SnapshotRecords[1]) = Some(DONE_NAME)
    /\ DueOf(SnapshotRecords[1]) = Some(Due(FALSE, 10, 0))
    /\ clock = Clock(8, 12)
    /\ Self.exclude_statuses = {<<"d", "o", "n", "e">>}
    /\ <<"d", "o", "n", "e">> \in Self.include_statuses
    /\ Self.due_within_days = 5
    /\ SnapshotRecords[1].archived = Some(FALSE)
    /\ SnapshotRecords[1].in_trash = Some(FALSE)
    /\ todo_items = Some(<< >>)

\* The filter asks for a status or a due: include_statuses is not empty or
\* due_within_days is positive.
FilterActive == Self.include_statuses # {} \/ Self.due_within_days > 0

\* The forward-looking window: it starts at the clock's reading and ends
\* `days` days later; a date is compared with the clock's date, a date-time
\* with the instant.
InsideWindow(due, days, now) ==
    /\ days > 0
    /\ due # None
    /\ LET d == Get(due, 0) IN
       IF d.datetime
       THEN Instant(now) <= Instant(d) /\ Instant(d) <= Instant(now) + days * 24
       ELSE now.day <= d.day /\ d.day <= now.day + days

\* A record that is neither archived nor in the trash.
Live(page) == page.archived # Some(TRUE) /\ page.in_trash # Some(TRUE)

\* A live record the exclude rule lets through.
PassesExclude(page) ==
    Live(page) /\ ~StatusIn(page, Self.exclude_statuses)

\* C13: with include_statuses not empty or due_within_days > 0, a record that
\* the exclude rule lets through is published if and only if its status
\* name, case-folded, is in include_statuses or its due is inside the
\* forward-looking window (so never by a null status and a null due, and
\* never by its due when due_within_days is 0).
C13_KeptByStatusOrDue ==
    (handled = "ok" /\ FilterActive) =>
      \A i \in DOMAIN SnapshotRecords :
        LET page == SnapshotRecords[i] IN
        PassesExclude(page) =>
          (IsPublished(page) <=>
             \/ StatusIn(page, Self.include_statuses)
             \/ InsideWindow(DueOf(page), Self.due_within_days, clock))

\* C14: the include-by-due condition (what publishes a record that passes
\* the exclude rule and is not included by its status) holds exactly when
\* due_within_days > 0, the due is not null and the due is inside the
\* forward-looking window from the clock's reading to due_within_days days
\* later; a due earlier than the clock's reading is outside.
C14_DueInsideForwardWindow ==
    (handled = "ok" /\ FilterActive) =>
      \A i \in DOMAIN SnapshotRecords :
        LET page == SnapshotRecords[i] IN
        (PassesExclude(page) /\ ~StatusIn(page, Self.include_statuses)) =>
          (IsPublished(page) <=>
             InsideWindow(DueOf(page), Self.due_within_days, clock))

\* The tasks of the published list that have the record's id.
TasksOf(page) == {k \in DOMAIN Published : Published[k].uid = page.id}

C16_PublishedIsSubsequence ==
    handled = "ok" =>
      /\ \A k \in DOMAIN Published :
           \E i \in DOMAIN SnapshotRecords :
             Published[k].uid = SnapshotRecords[i].id
      /\ \A k1, k2 \in DOMAIN Published :
           k1 < k2 =>
             \E i1, i2 \in DOMAIN SnapshotRecords :
               /\ i1 < i2
               /\ Published[k1].uid = SnapshotRecords[i1].id
               /\ Published[k2].uid = SnapshotRecords[i2].id

\* Two records, both published.
C16_Witness ==
    /\ handled = "ok"
    /\ Len(SnapshotRecords) = 2
    /\ StatusNameOf(SnapshotRecords[1]) = Some(DONE_NAME)
    /\ StatusNameOf(SnapshotRecords[2]) = Some(IN_PROGRESS_NAME)
    /\ Len(Published) = 2
    /\ Published[1].uid = Some("p1")
    /\ Published[2].uid = Some("p2")

\* C17: no task of the published list belongs to a record that is archived
\* or in the trash, whatever the filter is.
C17_NoArchivedOrTrashed ==
    handled = "ok" =>
      \A i \in DOMAIN SnapshotRecords :
        (\/ SnapshotRecords[i].archived = Some(TRUE)
         \/ SnapshotRecords[i].in_trash = Some(TRUE))
          => ~IsPublished(SnapshotRecords[i])

\* Without a filter, a record in the trash and a live one: the live one only
\* is published.
C17_Witness ==
    /\ handled = "ok"
    /\ ~FilterActive
    /\ Self.exclude_statuses = {}
    /\ Len(SnapshotRecords) = 2
    /\ SnapshotRecords[1].in_trash = Some(TRUE)
    /\ SnapshotRecords[1].archived # Some(TRUE)
    /\ Live(SnapshotRecords[2])
    /\ Len(Published) = 1
    /\ Published[1].uid = Some("p2")

\* The record of a task (the ids of a Snapshot differ).
RecordOf(task) ==
    SnapshotRecords[CHOOSE i \in DOMAIN SnapshotRecords :
                      SnapshotRecords[i].id = task.uid]

\* The configured title property of a record (None: the record has none).
TitlePropOf(page) == PropsGet(PropsOf(page), Self.title_property)

\* The text of a title or rich_text property, trimmed.
TrimmedText(p) == Strip(JoinPlainText(Get(p.parts, << >>)))

\* The name of the option of a select property ("" without one).
OptionName(p) ==
    IF p.option = None THEN << >> ELSE Get(Get(p.option, 0).name, << >>)

\* C18 as the claim has it: every published task has a non-empty title,
\* which is "Untitled" when the title property is absent, is not text-like
\* (title, rich_text) or has an empty trimmed text, and the trimmed text
\* otherwise.
C18_UntitledUnlessTextLike ==
    handled = "ok" =>
      \A k \in DOMAIN Published :
        LET prop == TitlePropOf(RecordOf(Published[k])) IN
        /\ Published[k].summary # << >>
        /\ Published[k].summary =
             IF prop = None THEN <<"U", "n", "t", "i", "t", "l", "e", "d">>
             ELSE IF /\ Get(prop, 0).type \in {"title", "rich_text"}
                     /\ TrimmedText(Get(prop, 0)) # << >>
             THEN TrimmedText(Get(prop, 0))
             ELSE <<"U", "n", "t", "i", "t", "l", "e", "d">>

\* C18, amended: every published task has a non-empty title; it is the
\* trimmed text of a title or rich_text property, or the option name, as it
\* is, of a select property, when that is not empty, and "Untitled" when the
\* title property is absent, of any other type, or gives an empty text.
C18_TitleNonEmpty ==
    handled = "ok" =>
      \A k \in DOMAIN Published :
        LET prop == TitlePropOf(RecordOf(Published[k])) IN
        /\ Published[k].summary # << >>
        /\ Published[k].summary =
             IF prop = None THEN <<"U", "n", "t", "i", "t", "l", "e", "d">>
             ELSE IF /\ Get(prop, 0).type \in {"title", "rich_text"}
                     /\ TrimmedText(Get(prop, 0)) # << >>
             THEN TrimmedText(Get(prop, 0))
             ELSE IF /\ Get(prop, 0).type = "select"
                     /\ OptionName(Get(prop, 0)) # << >>
             THEN OptionName(Get(prop, 0))
             ELSE <<"U", "n", "t", "i", "t", "l", "e", "d">>

\* The title property is the select property "Status": the task of a record
\* with the option "Dropped" has the title "Dropped".
C18_Witness ==
    /\ handled = "ok"
    /\ Self.title_property = "Status"
    /\ Len(Published) = 1
    /\ TitlePropOf(RecordOf(Published[1])) = Some(SelectProp(Option(DROPPED_NAME)))
    /\ Published[1].summary = <<"D", "r", "o", "p", "p", "e", "d">>

\* The configured status property of a record (None: the record has none).
StatusPropOf(page) == PropsGet(PropsOf(page), Self.status_property)

\* The name contains, whatever the case of its letters, one of the words
\* done, complete, completed, dropped.
NamesCompletion(name) ==
    \E w \in { <<"d", "o", "n", "e">>,
                <<"c", "o", "m", "p", "l", "e", "t", "e">>,
                <<"c", "o", "m", "p", "l", "e", "t", "e", "d">>,
                <<"d", "r", "o", "p", "p", "e", "d">> } :
      \E i \in 1..Len(name) :
        /\ i + Len(w) - 1 <= Len(name)
        /\ \A j \in 1..Len(w) : CaseFoldChar(name[i + j - 1]) = w[j]

\* C19: a task is completed by the configured status property only: a
\* checkbox iff its value is true; a select or status iff its option name
\* contains, case-insensitively, done, complete, completed or dropped
\* ("Dropped" and "Completed Early" are, "In Progress" is not); a missing
\* property or any other type is not completed.
C19_CompletedFromStatusProperty ==
    handled = "ok" =>
      \A k \in DOMAIN Published :
        LET prop == StatusPropOf(RecordOf(Published[k]))
            completed == Published[k].status = "completed"
        IN  /\ Published[k].status \in {"completed", "needs_action"}
            /\ prop = None => ~completed
            /\ prop # None =>
                 LET p == Get(prop, 0) IN
                 /\ p.type = "checkbox" => (completed <=> p.checkbox = Some(TRUE))
                 /\ p.type \in {"select", "status"} =>
                      (completed <=> NamesCompletion(OptionName(p)))
                 /\ p.type \notin {"checkbox", "select", "status"} => ~completed
                 /\ (/\ p.type \in {"select", "status"}
                     /\ OptionName(p) \in {DROPPED_NAME, COMPLETED_EARLY_NAME})
                      => completed
                 /\ (p.type \in {"select", "status"} /\ OptionName(p) = IN_PROGRESS_NAME)
                      => ~completed

\* The task of a record whose status is "Completed Early" is completed.
C19_Witness ==
    /\ handled = "ok"
    /\ Len(Published) = 1
    /\ StatusPropOf(RecordOf(Published[1]))
         = Some(StatusProp(Option(COMPLETED_EARLY_NAME)))
    /\ Published[1].status = "completed"

\* C20: a mapping error on one record does not abort the batch: after every
\* update the published list is the newly computed one, and every record
\* that is mapped without an error and passes the filter has a task in it.
C20_MappingErrorSkipsRecord ==
    handled # "none" =>
      /\ todo_items # None
      /\ \A i \in DOMAIN SnapshotRecords :
           LET page == SnapshotRecords[i] IN
           (/\ Live(page)
            /\ page.properties # Some(JsonNull)
            /\ ~StatusIn(page, Self.exclude_statuses)
            /\ Included(Self, StatusNameOf(page), DueOf(page), clock))
             => IsPublished(page)

\* The entry with other filter settings in its data and no options.
WithFilter(e, f) ==
    [data |-> [e.data EXCEPT !.include_statuses = f.include_statuses,
                             !.exclude_statuses = f.exclude_statuses,
                             !.due_within_days = f.due_within_days],
     options |-> NoOptions]

\* C21: computing the published list leaves the Snapshot as it is, and the
\* filter only selects: every published task is the task its record has
\* under every other setting of include_statuses, exclude_statuses and
\* due_within_days (same uid, summary, status, due, description).
C21_FilteringOnlySelects ==
    /\ [](handled = "ok" =>
            \A k \in DOMAIN Published :
              \A f \in DataFilters :
                LET page == RecordOf(Published[k]) IN
                TodoItem(EntityConfig(WithFilter(entry, f)), page, PropsOf(page))
                  = Published[k])
    /\ [][data' = data]_vars

\* A record with a description is published under a filter that includes
\* its status.
C21_Witness ==
    /\ handled = "ok"
    /\ FilterActive
    /\ Len(Published) = 1
    /\ Published[1].description = Some(BUY_TEXT)
    /\ Published[1].summary = BUY_TEXT

\* ------------------------------------------------ claims on the config flow

\* The key the flow reports a failure with: the error of the form shown
\* again, or the reason of the abort.
ReportedKey == IF flow.step = "abort" THEN flow.reason ELSE flow.errors

\* The flow's latest step was answered by the remote with this error and
\* reports it.
FailedWith(cls) ==
    /\ flow.cause # None
    /\ IsInstance(Get(flow.cause, ""), cls)

\* C22: a step of the setup flow that the remote fails reports the failure
\* with a key of its own per cause: an authentication error as "auth", a
\* communication error as "connection", a not-found error as an invalid
\* id, and none of the three as "unknown".
C22_DistinctOutcomePerCause ==
    /\ FailedWith("NotionTodoApiClientAuthenticationError")
          => ReportedKey = Some("auth")
    /\ FailedWith("NotionTodoApiClientCommunicationError")
          => ReportedKey = Some("connection")
    /\ FailedWith("NotionTodoApiClientNotFoundError")
          => ReportedKey \in {Some("invalid_id"), Some("invalid_database")}

\* ------------------------------------------------ claims on the request

\* The request ended in the fallback after the try statement.
ReachedFallback(r) ==
    r.t = "raise" /\ r.msg = ERROR_UNEXPECTED_RESPONSE

\* C23: the fallback "Unexpected response" after the try statement of the
\* request primitive is never reached: whatever the transport raises and
\* whatever status and body the remote answers with, the primitive returns
\* the body or raises from the try block, its except clauses or the
\* classified error, and no request of a query ends in the fallback.
C23_FallbackUnreachable ==
    /\ ~ReachedFallback(lastResult)
    /\ \A o \in Outcomes : ~ReachedFallback(ApiWrapper(o))

C23_Witness ==
    /\ Responded
    /\ lastOutcome.status = 403
    /\ lastResult = Raise("NotionTodoApiClientAuthenticationError",
                          ERROR_INVALID_CREDENTIALS)
    /\ TryBody(lastOutcome).t = "pass"

\* ------------------------------------------------ claims on the entity's life

\* The record goes through the filter the entity has read from the entry.
PassesFilter(page) ==
    /\ ~Excluded(Self, StatusNameOf(page))
    /\ Included(Self, StatusNameOf(page), DueOf(page), clock)

\* The filter applied to the mapping of the Snapshot: the tasks of the
\* records that are neither archived nor trashed, can be mapped and go
\* through the filter, in the Snapshot's order.
FilterOfMapping ==
    LET kept == SelectSeq(SnapshotRecords,
                          LAMBDA page : /\ Live(page)
                                        /\ ~MappingRaises(page)
                                        /\ PassesFilter(page))
    IN  [i \in 1..Len(kept) |-> TodoItem(Self, kept[i], PropsOf(kept[i]))]

\* The coordinator has called the entity (when it was added, or after a
\* refresh).
Notified == listeners /\ handled # "none"

\* C24: after every call of the entity by the coordinator, the published
\* list is the filter, as read from the entry, applied to the mapping of
\* the coordinator's Snapshot; a failed refresh leaves the Snapshot as it
\* was, so the list is recomputed from it; without a Snapshot the list is
\* empty.
C24_PublishedIsFilterOfSnapshot ==
    /\ Notified => todo_items = Some(FilterOfMapping)
    /\ (Notified /\ data = None) => todo_items = Some(<< >>)
    /\ (CycleEnded /\ ~update.ok) => data = previous_data

\* The same for the calls in which the entity's loop ran to its end.
C24_WhenHandled ==
    /\ (Notified /\ handled = "ok") => todo_items = Some(FilterOfMapping)
    /\ (CycleEnded /\ ~update.ok) => data = previous_data

\* The three tiers of a filter setting: the options' value when the options
\* have the key, else the data's value when the data have it, else the
\* default.
ThreeTiers(key, default) ==
    IF entry.options[key] # None THEN Get(entry.options[key], default)
    ELSE IF entry.data[key] # None THEN Get(entry.data[key], default)
    ELSE default

\* The settings by the three tiers, the property names by the data.
Resolved ==
    [title_property |-> Get(entry.data.title_property, "Name"),
     status_property |-> Get(entry.data.status_property, "Status"),
     due_property |-> Get(entry.data.due_property, "Due"),
     description_property |-> Get(entry.data.description_property, "Description"),
     include_statuses |->
         ParseStatusList(Some(ThreeTiers("include_statuses", << >>))),
     exclude_statuses |->
         ParseStatusList(Some(ThreeTiers("exclude_statuses", << >>))),
     due_within_days |-> ThreeTiers("due_within_days", 0)]

\* C25: include_statuses, exclude_statuses and due_within_days are each the
\* options' value when the options have the key (an empty value or 0
\* too), else the data's value, else empty / 0, and the list is published
\* under these; the property names come from the data, which an options
\* update does not change.
C25_ThreeTierLookup ==
    /\ [](Self = Resolved)
    /\ []((Notified /\ handled = "ok") =>
            todo_items =
              Some(HandlePages(Resolved, clock, SnapshotRecords, << >>).items))
    /\ [][entry'.data = entry.data]_vars

\* The options' 0 and empty values are in force over a window of five days
\* in the data: both records are published, the one that is not due too.
C25_Witness ==
    /\ Notified
    /\ handled = "ok"
    /\ entry.data.due_within_days = Some(5)
    /\ entry.options.due_within_days = Some(0)
    /\ entry.options.include_statuses = Some(<< >>)
    /\ Self.due_within_days = 0
    /\ Len(SnapshotRecords) = 2
    /\ Len(Published) = 2

\* ----------------------------------------- claims on the entry the flow makes

\* The ids of the data sources of a database payload.
SourceIdsOf(database) ==
    LET listed == Get(database.data_sources, << >>) IN
    UNION {listed[i].id : i \in DOMAIN listed}
    \cup UNION {s.id : s \in database.data_source}

\* The flow has made an entry.
EntryCreated == flow.step = "create_entry"

\* C26: on every path of the flow (an id whose database has one data
\* source, a database selected from the list, a data source selected from
\* the database's), the entry is made with a data_source_id that is not
\* empty and is the id of a data source of the chosen database, and its
\* unique id is that data_source_id; so the coordinator's guard on a
\* missing data source id does not fire for it. No other step leaves an
\* entry.
C26_EntryHasDataSourceOfDatabase ==
    /\ EntryCreated =>
         /\ flow.entry.data_source_id # None
         /\ Get(flow.entry.data_source_id, "") # ""
         /\ flow.database # None
         /\ flow.entry.data_source_id
              \subseteq SourceIdsOf(Get(flow.database, EmptyPayload))
         /\ flow.unique_id = flow.entry.data_source_id
         /\ flow.entry.database_id # None
         /\ ~MissingDataSourceId(flow.entry.data_source_id)
    /\ ~EntryCreated =>
         flow.entry = [database_id |-> None, data_source_id |-> None]

\* The entry made by the selection of the second of two data sources of a
\* database selected from the list.
C26_Witness ==
    /\ EntryCreated
    /\ Len(flow.available_databases) = 2
    /\ Len(flow.available_data_sources) = 2
    /\ flow.entry.data_source_id = Some("s2")
    /\ flow.entry.database_id = Some(Uuid("b", TRUE))

\* ------------------------------------------------------ claims on the setup

\* The entity is there: it listens, or it has published a list.
EntityThere == listeners \/ todo_items # None \/ handled # "none"

\* C27: in a setup of the entry, the to-do entity is added and the update
\* listener registered only when the first refresh has ended in success;
\* while the first refresh is in flight, and after one that failed (by
\* authentication, a transient error or the missing data source id), there
\* is no entity, no update listener and no published list.
C27_EntityOnlyAfterFirstRefresh ==
    /\ [](entryState # "loaded" => (~EntityThere /\ ~update_listener))
    /\ [][((EntityThere' /\ ~EntityThere)
             \/ (update_listener' /\ ~update_listener)) =>
           /\ cycle = "first"
           /\ pc = "fetching"
           /\ update'.ok
           /\ data' = Some(update'.value)
           /\ entryState' = "loaded"]_vars

\* A setup whose first refresh failed by authentication, after an options
\* update of an entry that had its entity.
C27_Witness ==
    /\ entryState = "setup_error"
    /\ cycle = "first"
    /\ update.exc = "ConfigEntryAuthFailed"
    /\ entry.options # NoOptions
    /\ ~EntityThere
    /\ ~update_listener

====
